---------------------------- MODULE Spec2Model ----------------------------
(***************************************************************************)
(* A model of the feedback console's client logic:                         *)
(*   - the notification aggregator (NotificationProvider),                 *)
(*   - the API client's interceptors (services/api),                       *)
(*   - the route table and its guard (App).                                *)
(* Every asynchronous handler is cut at its awaits: the part before the    *)
(* await is one action, each continuation (resolved / rejected) another.   *)
(***************************************************************************)
EXTENDS Integers, Sequences, FiniteSets, TLC

(***************************************************************************)
(* Bounds of the model.                                                    *)
(***************************************************************************)
\* notification ids are 1..MaxId (server ids and Date.now() ids alike)
MaxId == 2
\* the list is not grown beyond MaxLen entries
MaxLen == 2
\* the server's snapshot holds at most MaxFetch entries
MaxFetch == 1
\* the unread counter and the server's counts stay within 0..MaxCount
MaxCount == 2
\* remote mark-read and mark-all-read calls in flight at a time
MaxInFlight == 1
\* requests of the API client awaiting their response at a time
MaxRequests == 2

Ids == 1..MaxId

\* A Notification, reduced to the two fields the aggregator reads or writes.
Notification == [id : Ids, is_read : BOOLEAN]

\* The lists the remote service can answer GET /api/notifications/ with:
\* the server issues its numeric ids once each, in increasing order, and
\* lists the newest entry first.
ServerLists ==
    {l \in UNION {[1..n -> Notification] : n \in 0..MaxFetch} :
        \A i, j \in 1..Len(l) : i < j => l[i].id > l[j].id}

VARIABLES
    \* ---- NotificationProvider
    notifications,   \* useState<Notification[]>([])
    unreadCount,     \* useState(0)
    loading,         \* useState(true)
    scope,           \* "created" | "mounted" | "unmounted": the provider's lifetime
    subscribed,      \* the push tags whose handler is registered
    outstanding,     \* the requests of loadNotifications not answered yet
    loadPc,          \* loadNotifications: "idle" | "awaiting" | "resolved" | "rejected"
    pendingMark,     \* id -> number of notificationsAPI.markAsRead(id) calls in flight
    pendingAll,      \* number of notificationsAPI.markAllAsRead() calls in flight
    last,            \* history: the handler or continuation that ran last, with its arguments
    \* ---- App: the route table and its guard
    appBuild,        \* which App the bundle was built from (1..4, see RouteTable)
    isAuthenticated, \* the session store's answer, read by PrivateRoute
    requested,       \* history: the path of the last navigation
    location,        \* the router's location once every <Navigate> has been followed
    rendered,        \* the route elements rendered at that location
    \* ---- services/api: the shared axios client
    apiBuild,        \* which services/api the bundle was built from (1..2, see Redirects)
    authToken,       \* localStorage['authToken'] ("" when absent)
    pathname,        \* window.location.pathname
    inflight,        \* the requests sent and not answered yet, each with its Authorization header
    lastApi,         \* history: the interceptor or event that ran last
    \* ---- PublicFeedbackForm
    pfBuild,         \* which PublicFeedbackForm the bundle was built from (1..2, see SubmitResolve)
    pfForm,          \* useState<FeedbackForm | null>(null)
    pfLoading,       \* useState(true)
    pfSubmitting,    \* useState(false)
    pfError,         \* useState('')
    pfSuccess,       \* useState(false) (build 1); build 2: navigate('/feedback/submitted') was called
    pfAnswers,       \* useState<Record<number, any>>({}): question id -> answer
    pfLoadPending,   \* publicFeedbackAPI.getPublicForm calls in flight
    pfSubmitPending, \* publicFeedbackAPI.submitFeedback calls in flight
    pfLast,          \* history: the handler or continuation that ran last
    \* ---- the pages that load their data on mount
    pgKind,          \* which page: see PageKinds
    pgData,          \* "initial" (useState's [] or null) | "loaded"
    pgLoading,       \* useState(true)
    pgError,         \* useState<string | null>(null)
    pgPending,       \* load requests in flight
    pgForms,         \* FormsList: useState<FeedbackForm[]>([]), as the ids of the forms
    pgDeletes,       \* FormsList: the formsAPI.deleteForm calls in flight, each with the
                     \* forms array its handleDeleteForm closed over
    pgDeleted,       \* history: the ids whose remote delete has succeeded
    pgLast,          \* history: the handler or continuation that ran last
    \* ---- FormAnalytics
    faBuild,         \* which FormAnalytics the bundle was built from (1..2, see FaBuilds)
    faId,            \* useParams().id
    faAuth,          \* useAuth(): isAuthenticated (build 1), user present (build 2)
    faRetryCount,    \* useState(0)
    faLoading,       \* useState(true)
    faError,         \* the errorType of a non-empty error, "" while error is empty
    faLoaded,        \* whether setAnalytics has been given data
    faDeps,          \* the effect's dependencies [id, auth, retryCount] at its last run
    faTrigger,       \* history: the event that last changed a dependency
    faStage1,        \* loads awaiting formsAPI.getForm(id)
    faStage2,        \* loads awaiting Promise.all([getFormAnalytics, getQuestionAnalytics])
    faLast,          \* history: the handler, effect or continuation that ran last
    \* ---- CreateForm / EditForm
    cfKind,          \* which page: "CreateForm" or "EditForm"
    cfTitle,         \* formData.title
    cfQuestions,     \* formData.questions
    cfLoading,       \* useState(false)
    cfPending,       \* createForm / updateForm requests awaited
    cfOpen,          \* the page is shown (FALSE once handleSubmit has navigated away)
    cfLast           \* history: the handler or continuation that ran last

nvars == <<notifications, unreadCount, loading, scope, subscribed, outstanding,
           loadPc, pendingMark, pendingAll, last>>

rvars == <<appBuild, isAuthenticated, requested, location, rendered>>

avars == <<apiBuild, authToken, pathname, inflight, lastApi>>

pvars == <<pfBuild, pfForm, pfLoading, pfSubmitting, pfError, pfSuccess,
           pfAnswers, pfLoadPending, pfSubmitPending, pfLast>>

pgvars == <<pgKind, pgData, pgLoading, pgError, pgPending, pgForms, pgDeletes,
            pgDeleted, pgLast>>

favars == <<faBuild, faId, faAuth, faRetryCount, faLoading, faError, faLoaded,
            faDeps, faTrigger, faStage1, faStage2, faLast>>

cfvars == <<cfKind, cfTitle, cfQuestions, cfLoading, cfPending, cfOpen, cfLast>>

vars == <<nvars, rvars, avars, pvars, pgvars, favars, cfvars>>

\* The two requests of Promise.all([getNotifications(), getUnreadCount()]).
Requests == {"list", "count"}

PushTags == {"notification", "notification_count", "new_response"}

\* op:      the handler or continuation
\* id:      the id it was given (0: none)
\* is_read: the read flag of the entry it was given
\* val:     the count it was given (a pushed or fetched unread_count); for
\*          markAsRead's and markAllAsRead's continuations, the counter it met
\* fetched: the length of the list it was given (a fetched snapshot)
\* found:   what markAsRead's continuation met under its id: "none" | "unread" | "read";
\*          for markAllAsRead's, whether it met an unread entry
\* again:   a markAsRead(id) call that directly follows the successful
\*          continuation of a markAsRead of the same id
\* req:     the request whose failure rejected loadNotifications' Promise.all
\* shown:   the message a catch block made visible (setError, alert); "" if none
\* promise: how the promise of the async handler settled: "none" (not yet) |
\*          "resolved" | "rejected"
Did(o) == [op |-> o, id |-> 0, is_read |-> FALSE, val |-> 0, fetched |-> 0,
           found |-> "none", again |-> FALSE, req |-> "none",
           shown |-> "", promise |-> "none"]

\* no message made visible
NoMessage == ""

\* mutant of Caught: the catch block rethrows, the handler's promise rejects
Rethrown == "rejected"

\* a catch block that returns normally: the handler's promise resolves
Caught == "resolved"

\* catch (error) { console.error(...) } of loadNotifications, markAsRead and
\* markAllAsRead: logged, nothing set, nothing alerted
LoggedOnly == NoMessage

(***************************************************************************)
(* Pure helpers                                                            *)
(***************************************************************************)
Max(a, b) == IF a >= b THEN a ELSE b

\* [notification, ...prev]
Prepend(n, list) == <<n>> \o list

\* prev.map(n => n.id === id ? { ...n, is_read: true } : n)
MarkOne(list, id) ==
    [i \in 1..Len(list) |->
        IF list[i].id = id THEN [list[i] EXCEPT !.is_read = TRUE] ELSE list[i]]

\* prev.map(n => ({ ...n, is_read: true }))
MarkAll(list) ==
    [i \in 1..Len(list) |-> [list[i] EXCEPT !.is_read = TRUE]]

\* mutant of Decrement: prev - 1 without Math.max
DecrementNoFloor(c) == c - 1

\* Math.max(0, prev - 1)
Decrement(c) == Max(0, c - 1)

\* the mark-read and mark-all-read calls in flight
RECURSIVE SumUpTo(_, _)
SumUpTo(f, n) == IF n = 0 THEN 0 ELSE f[n] + SumUpTo(f, n - 1)

InFlight == SumUpTo(pendingMark, MaxId) + pendingAll

\* the number of entries whose read flag is false
Unread(list) == Cardinality({i \in 1..Len(list) : ~list[i].is_read})

HasId(list, id) == \E i \in 1..Len(list) : list[i].id = id

HasUnreadId(list, id) == \E i \in 1..Len(list) : list[i].id = id /\ ~list[i].is_read

(***************************************************************************)
(* NotificationProvider                                                    *)
(***************************************************************************)
NInit ==
    /\ notifications = <<>>
    /\ unreadCount = 0
    /\ loading = TRUE
    /\ scope = "created"
    /\ subscribed = {}
    /\ outstanding = {}
    /\ loadPc = "idle"
    /\ pendingMark = [i \in Ids |-> 0]
    /\ pendingAll = 0
    /\ last = Did("init")

\* the variables held while another part of the program is checked
NIdle == NInit

\* what every step of the provider leaves alone: the rest of the program
NFrame == UNCHANGED <<rvars, avars, pvars, pgvars, favars, cfvars>>

\* useEffect(() => { loadNotifications(); subscribe x3; return cleanup }, [])
\* loadNotifications runs to its await: setLoading(true), both requests issued.
Mount ==
    /\ scope = "created"
    /\ scope' = "mounted"
    /\ loading' = TRUE
    /\ outstanding' = Requests
    /\ loadPc' = "awaiting"
    /\ subscribed' = PushTags
    /\ last' = Did("mount")
    /\ UNCHANGED <<notifications, unreadCount, pendingMark, pendingAll>>
    /\ NFrame

\* mutant of AfterCleanup: the cleanup forgets unsubscribeNotificationCount()
CleanupKeepsCount(subs) == subs \cap {"notification_count"}

\* the registrations left by the effect's cleanup: unsubscribeNotification();
\* unsubscribeNotificationCount(); unsubscribeNewResponse()
AfterCleanup(subs) == subs \ {"notification", "notification_count", "new_response"}

\* websocketService: an event of a tag is handed to the handler registered
\* for it, and to nobody once the handler's unsubscribe function was called
Dispatches(tag) == tag \in subscribed

\* the effect's cleanup: the three unsubscribe functions are called
Unmount ==
    /\ scope = "mounted"
    /\ scope' = "unmounted"
    /\ subscribed' = AfterCleanup(subscribed)
    /\ last' = Did("unmount")
    /\ UNCHANGED <<notifications, unreadCount, loading, outstanding,
                   loadPc, pendingMark, pendingAll>>
    /\ NFrame

\* setNotifications(notificationsData)
LoadedList(prev, data) == data

\* setUnreadCount(unreadCountData.unread_count)
LoadedCount(prev, count) == count

\* mutant of LoadingAfterLoad: no finally block, the flag set by
\* setLoading(true) is left as it is
LoadingStillTrue == TRUE

\* the loading flag after the finally block: setLoading(false)
LoadingAfterLoad == FALSE

\* mutant of FailedLoadList: the catch block resets the list, setNotifications([])
FailedLoadListCleared(prev) == <<>>

\* the list after loadNotifications' catch block: no state update before the
\* await, none in the catch block
FailedLoadList(prev) == prev

\* the counter after loadNotifications' catch block
FailedLoadCount(prev) == prev

\* mutant of Cancelled: the continuation of loadNotifications skips its
\* updates once the effect's cleanup has run
CancelledWhenUnmounted(sc) == sc = "unmounted"

\* whether the continuation of loadNotifications is called off: the effect's
\* cleanup aborts no request and sets no flag, and the continuation tests none
Cancelled(sc) == FALSE

\* Both requests have been answered (which answer came first is seen by
\* nobody): Promise.all resolves and the rest of the try block runs, then
\* finally: setNotifications(data); setUnreadCount(count); setLoading(false).
LoadResolve(data, count) ==
    /\ loadPc = "awaiting"
    /\ outstanding = Requests
    /\ outstanding' = {}
    /\ notifications' = IF Cancelled(scope) THEN notifications
                        ELSE LoadedList(notifications, data)
    /\ unreadCount' = IF Cancelled(scope) THEN unreadCount
                      ELSE LoadedCount(unreadCount, count)
    /\ loading' = LoadingAfterLoad
    /\ loadPc' = "resolved"
    /\ last' = [Did("loadResolve") EXCEPT !.val = count, !.fetched = Len(data),
                                           !.promise = "resolved"]
    /\ UNCHANGED <<scope, subscribed, pendingMark, pendingAll>>
    /\ NFrame

\* Request r fails, the other one answered already or not (late): Promise.all
\* rejects at once; catch logs, finally setLoading(false).
LoadReject(r, late) ==
    /\ loadPc = "awaiting"
    /\ r \in outstanding
    /\ outstanding' = IF late THEN outstanding \ {r} ELSE {}
    /\ loading' = LoadingAfterLoad
    /\ loadPc' = "rejected"
    /\ notifications' = FailedLoadList(notifications)
    /\ unreadCount' = FailedLoadCount(unreadCount)
    /\ last' = [Did("loadReject") EXCEPT !.req = r, !.shown = LoggedOnly,
                                          !.promise = Caught]
    /\ UNCHANGED <<scope, subscribed, pendingMark, pendingAll>>
    /\ NFrame

\* After Promise.all has rejected, the other request is still answered (or
\* fails); nobody reads its outcome.
LateAnswer(r) ==
    /\ loadPc = "rejected"
    /\ r \in outstanding
    /\ outstanding' = outstanding \ {r}
    /\ last' = Did("lateAnswer")
    /\ UNCHANGED <<notifications, unreadCount, loading, scope, subscribed,
                   loadPc, pendingMark, pendingAll>>
    /\ NFrame

\* mutant of AddedList: an entry whose id the list holds already is dropped
AddedListDeduplicated(n, prev) == IF HasId(prev, n.id) THEN prev ELSE Prepend(n, prev)

\* mutant of AddedList: the entry is put at the end, [...prev, notification]
AddedListAtEnd(n, prev) == Append(prev, n)

\* setNotifications(prev => [notification, ...prev])
AddedList(n, prev) == Prepend(n, prev)

\* mutant of AddedCount: addNotification leaves the counter alone
AddedCountSame(c) == c

\* setUnreadCount(prev => prev + 1)
AddedCount(c) == c + 1

\* addNotification's two state updates
AddEffect(n) ==
    /\ Len(notifications) < MaxLen
    /\ unreadCount < MaxCount
    /\ notifications' = AddedList(n, notifications)
    /\ unreadCount' = AddedCount(unreadCount)

\* addNotification(notification), called by a consumer of the context
AddNotification(n) ==
    /\ scope = "mounted"
    /\ AddEffect(n)
    /\ last' = [Did("addNotification") EXCEPT !.id = n.id, !.is_read = n.is_read]
    /\ UNCHANGED <<loading, scope, subscribed, outstanding, loadPc,
                   pendingMark, pendingAll>>
    /\ NFrame

\* the entry the 'notification' handler builds: { id: Date.now(), is_read: false, ... }
NewNotification(now) == [id |-> now, is_read |-> FALSE]

\* the entry the 'new_response' handler builds: { id: Date.now(), is_read: false, ... }
NewResponseNotification(now) == [id |-> now, is_read |-> FALSE]

\* push 'notification': the entry is built and handed to addNotification
PushNotification(now) ==
    /\ Dispatches("notification")
    /\ AddEffect(NewNotification(now))
    /\ last' = [Did("push_notification") EXCEPT !.id = now]
    /\ UNCHANGED <<loading, scope, subscribed, outstanding, loadPc,
                   pendingMark, pendingAll>>
    /\ NFrame

\* push 'new_response': the synthetic entry is built and handed to addNotification
PushNewResponse(now) ==
    /\ Dispatches("new_response")
    /\ AddEffect(NewResponseNotification(now))
    /\ last' = [Did("push_new_response") EXCEPT !.id = now]
    /\ UNCHANGED <<loading, scope, subscribed, outstanding, loadPc,
                   pendingMark, pendingAll>>
    /\ NFrame

\* mutant of CountFromPush: the delivered value is added to the counter
CountFromPushAdded(prev, c) == prev + c

\* setUnreadCount(data.unread_count)
CountFromPush(prev, c) == c

\* push 'notification_count'
PushCount(c) ==
    /\ Dispatches("notification_count")
    /\ unreadCount' = CountFromPush(unreadCount, c)
    /\ last' = [Did("push_count") EXCEPT !.val = c]
    /\ UNCHANGED <<notifications, loading, scope, subscribed, outstanding,
                   loadPc, pendingMark, pendingAll>>
    /\ NFrame

\* a push event of a tag nobody is registered for (before the mount effect,
\* after its cleanup): no handler runs
PushIgnored(tag) ==
    /\ ~Dispatches(tag)
    /\ last' = Did("push_ignored")
    /\ UNCHANGED <<notifications, unreadCount, loading, scope, subscribed,
                   outstanding, loadPc, pendingMark, pendingAll>>
    /\ NFrame

\* markAsRead(id) up to its await: the remote call is issued, nothing else
MarkAsReadCall(id) ==
    /\ scope = "mounted"
    /\ InFlight < MaxInFlight
    /\ pendingMark' = [pendingMark EXCEPT ![id] = @ + 1]
    /\ last' = [Did("markAsRead_call") EXCEPT
                   !.id = id,
                   !.again = (last.op = "markAsRead_ok" /\ last.id = id)]
    /\ UNCHANGED <<notifications, unreadCount, loading, scope, subscribed,
                   outstanding, loadPc, pendingAll>>
    /\ NFrame

\* what a markAsRead continuation meets under its id
Found(list, id) ==
    IF HasUnreadId(list, id) THEN "unread"
    ELSE IF HasId(list, id) THEN "read"
    ELSE "none"

\* the list after markAsRead's awaited call resolved
MarkedList(list, id) == MarkOne(list, id)

\* mutant of MarkedCount: the counter follows the list, it is decremented
\* only if the call marked an unread entry
MarkedCountIfUnread(list, id, c) == IF HasUnreadId(list, id) THEN Decrement(c) ELSE c

\* mutant of MarkedCount: no floor, setUnreadCount(prev => prev - 1)
MarkedCountNoFloor(list, id, c) == c - 1

\* the counter after markAsRead's awaited call resolved:
\* setUnreadCount(prev => Math.max(0, prev - 1)), whatever the list holds
MarkedCount(list, id, c) == Decrement(c)

\* the remote call resolved: the entry is marked, the counter decremented
\* (and websocketService.markNotificationAsRead(id) is sent)
MarkAsReadResolve(id) ==
    /\ pendingMark[id] > 0
    /\ pendingMark' = [pendingMark EXCEPT ![id] = @ - 1]
    /\ notifications' = MarkedList(notifications, id)
    /\ unreadCount' = MarkedCount(notifications, id, unreadCount)
    /\ last' = [Did("markAsRead_ok") EXCEPT
                   !.id = id,
                   !.val = unreadCount,
                   !.found = Found(notifications, id),
                   !.again = (last.op = "markAsRead_call" /\ last.id = id /\ last.again),
                   !.promise = "resolved"]
    /\ UNCHANGED <<loading, scope, subscribed, outstanding, loadPc,
                   pendingAll>>
    /\ NFrame

\* mutant of FailedMarkList: the entry is marked before the await and the
\* catch block does not undo it
OptimisticMarkList(list, id) == MarkOne(list, id)

\* the list after markAsRead's catch block
FailedMarkList(list, id) == list

\* the counter after markAsRead's catch block
FailedMarkCount(c) == c

\* the remote call rejected: the awaited call throws before any state update,
\* the catch block logs
MarkAsReadReject(id) ==
    /\ pendingMark[id] > 0
    /\ pendingMark' = [pendingMark EXCEPT ![id] = @ - 1]
    /\ notifications' = FailedMarkList(notifications, id)
    /\ unreadCount' = FailedMarkCount(unreadCount)
    /\ last' = [Did("markAsRead_failed") EXCEPT
                   !.id = id, !.found = Found(notifications, id),
                   !.shown = LoggedOnly, !.promise = Caught]
    /\ UNCHANGED <<loading, scope, subscribed, outstanding, loadPc,
                   pendingAll>>
    /\ NFrame

\* markAllAsRead() up to its await
MarkAllAsReadCall ==
    /\ scope = "mounted"
    /\ InFlight < MaxInFlight
    /\ pendingAll' = pendingAll + 1
    /\ last' = Did("markAllAsRead_call")
    /\ UNCHANGED <<notifications, unreadCount, loading, scope, subscribed,
                   outstanding, loadPc, pendingMark>>
    /\ NFrame

\* the list after markAllAsRead's awaited call resolved
AllMarkedList(list) == MarkAll(list)

\* mutant of AllMarkedCount: the counter is decremented instead of zeroed
AllMarkedCountDecremented(c) == Decrement(c)

\* setUnreadCount(0)
AllMarkedCount(c) == 0

\* the remote call resolved: every entry marked, counter zeroed
\* (and websocketService.markAllNotificationsAsRead() is sent)
MarkAllAsReadResolve ==
    /\ pendingAll > 0
    /\ pendingAll' = pendingAll - 1
    /\ notifications' = AllMarkedList(notifications)
    /\ unreadCount' = AllMarkedCount(unreadCount)
    /\ last' = [Did("markAllAsRead_ok") EXCEPT
                   !.val = unreadCount,
                   !.found = IF Unread(notifications) > 0 THEN "unread" ELSE "none",
                   !.promise = "resolved"]
    /\ UNCHANGED <<loading, scope, subscribed, outstanding, loadPc,
                   pendingMark>>
    /\ NFrame

\* mutant of FailedAllList: the entries are marked before the await and the
\* catch block does not undo it
OptimisticAllList(list) == MarkAll(list)

\* the list after markAllAsRead's catch block
FailedAllList(list) == list

\* the counter after markAllAsRead's catch block
FailedAllCount(c) == c

\* the remote call rejected: the catch block logs
MarkAllAsReadReject ==
    /\ pendingAll > 0
    /\ pendingAll' = pendingAll - 1
    /\ notifications' = FailedAllList(notifications)
    /\ unreadCount' = FailedAllCount(unreadCount)
    /\ last' = [Did("markAllAsRead_failed") EXCEPT
                   !.found = IF Unread(notifications) > 0 THEN "unread" ELSE "none",
                   !.shown = LoggedOnly, !.promise = Caught]
    /\ UNCHANGED <<loading, scope, subscribed, outstanding, loadPc,
                   pendingMark>>
    /\ NFrame

NNext ==
    \/ Mount
    \/ Unmount
    \/ \E data \in ServerLists, c \in 0..MaxCount : LoadResolve(data, c)
    \/ \E r \in Requests, late \in BOOLEAN : LoadReject(r, late)
    \/ \E r \in Requests : LateAnswer(r)
    \/ \E n \in Notification : AddNotification(n)
    \/ \E now \in Ids : PushNotification(now)
    \/ \E now \in Ids : PushNewResponse(now)
    \/ \E c \in 0..MaxCount : PushCount(c)
    \/ \E tag \in PushTags : PushIgnored(tag)
    \/ \E id \in Ids : MarkAsReadCall(id)
    \/ \E id \in Ids : MarkAsReadResolve(id)
    \/ \E id \in Ids : MarkAsReadReject(id)
    \/ MarkAllAsReadCall
    \/ MarkAllAsReadResolve
    \/ MarkAllAsReadReject

(***************************************************************************)
(* Paths.  A path is a sequence of pieces: the separator "/" or a word.    *)
(* "/admin/forms/x/edit" is <<"/", "admin", "/", "forms", "/", "x", "/",   *)
(* "edit">>; "/loginx" is <<"/", "login", "x">>.  String.includes is the   *)
(* search for a contiguous run of pieces.                                  *)
(***************************************************************************)
P(segs) ==
    LET RECURSIVE Join(_)
        Join(ss) == IF ss = <<>> THEN <<>> ELSE <<"/">> \o Head(ss) \o Join(Tail(ss))
    IN IF segs = <<>> THEN <<"/">> ELSE Join(segs)

W(w) == <<w>>

\* The paths a user types or a link leads to.
Paths == {
    P(<<>>),
    P(<<W("login")>>),
    P(<<<<"login", "x">>>>),
    P(<<W("user")>>),
    P(<<W("x")>>),
    P(<<W("feedback")>>),
    P(<<W("feedback"), W("x")>>),
    P(<<W("feedback"), W("submitted")>>),
    P(<<W("feedback"), W("response"), W("x")>>),
    P(<<W("admin")>>),
    P(<<W("admin"), W("login")>>),
    P(<<W("admin"), W("dashboard")>>),
    P(<<W("admin"), W("forms")>>),
    P(<<W("admin"), W("forms"), W("create")>>),
    P(<<W("admin"), W("forms"), W("x"), W("edit")>>),
    P(<<W("admin"), W("forms"), W("x"), W("analytics")>>),
    P(<<W("admin"), W("responses")>>),
    P(<<W("admin"), W("settings")>>),
    P(<<W("admin"), W("x")>>),
    P(<<W("admin"), W("feedback"), W("x")>>) }

\* the segments of a path: the runs of pieces between separators
RECURSIVE Split(_)
Split(p) ==
    IF p = <<>> THEN <<>>
    ELSE IF Head(p) = "/" THEN Split(Tail(p))
    ELSE LET stops == {i \in 1..Len(p) : p[i] = "/"}
             n == IF stops = {} THEN Len(p)
                  ELSE (CHOOSE i \in stops : \A j \in stops : i <= j) - 1
         IN <<SubSeq(p, 1, n)>> \o Split(SubSeq(p, n + 1, Len(p)))

\* currentPath.includes(pattern)
Includes(p, pattern) ==
    \E i \in 1..(Len(p) - Len(pattern) + 1) :
        SubSeq(p, i, i + Len(pattern) - 1) = pattern

(***************************************************************************)
(* App: <Routes>.  Builds: 1 = src/App.tsx, 2 = unnamed/part_000,          *)
(* 3 = unnamed/part_001 (first App), 4 = unnamed/part_001 (second App).    *)
(***************************************************************************)
Builds == 1..4

\* What a matched route gives: an element to render, or a <Navigate>.
View(v, g) == [kind |-> "view", view |-> v, guarded |-> g, to |-> <<>>]
Redirect(t, g) == [kind |-> "redirect", view |-> "", guarded |-> g, to |-> t]

\* mutant of AdminGuarded: the /admin route's element is <Layout /> alone
AdminUnguarded(b) == FALSE

\* <Route path="/admin" element={<PrivateRoute><Layout /></PrivateRoute>}>
AdminGuarded(b) == TRUE

\* the child routes of /admin; rest is what follows the "admin" segment
AdminChildren(b, rest) ==
    LET g == AdminGuarded(b) IN
    CASE rest = <<>> -> Redirect(P(<<W("admin"), W("dashboard")>>), g)
      [] rest = <<W("dashboard")>> -> View("Dashboard", g)
      [] rest = <<W("forms")>> -> View("FormsList", g)
      [] rest = <<W("forms"), W("create")>> -> View("CreateForm", g)
      [] Len(rest) = 3 /\ rest[1] = W("forms") /\ rest[3] = W("edit") /\ b = 1 ->
            View("EditForm", g)
      [] Len(rest) = 3 /\ rest[1] = W("forms") /\ rest[3] = W("analytics") ->
            View("FormAnalytics", g)
      [] rest = <<W("responses")>> -> View("ResponsesList", g)
      [] rest = <<W("settings")>> /\ b = 1 -> View("Settings", g)
      [] OTHER -> View("", g)

\* <Route path="*" element={<Navigate to=... replace />} />
CatchAll(b) == IF b \in {1, 4} THEN P(<<W("login")>>) ELSE P(<<>>)

\* The route the table of build b matches segments s with (static segments
\* rank above ":param", "*" last).
RouteTable(b, s) ==
    LET admin == IF s # <<>> /\ Head(s) = W("admin")
                 THEN AdminChildren(b, Tail(s)) ELSE View("", FALSE)
    IN
    CASE s = <<>> ->
            IF b \in {1, 4} THEN Redirect(P(<<W("login")>>), FALSE)
            ELSE View("UserAccess", FALSE)
      [] s = <<W("login")>> ->
            IF b = 2 THEN Redirect(P(<<W("admin"), W("login")>>), FALSE)
            ELSE View("Login", FALSE)
      [] s = <<W("user")>> /\ b = 2 -> View("UserAccess", FALSE)
      [] s = <<W("admin"), W("login")>> /\ b = 2 -> View("Login", FALSE)
      [] s = <<W("feedback"), W("submitted")>> /\ b = 3 ->
            View("FeedbackSubmitted", FALSE)
      [] Len(s) = 2 /\ s[1] = W("feedback") -> View("PublicFeedbackForm", FALSE)
      [] Len(s) = 3 /\ s[1] = W("feedback") /\ s[2] = W("response") /\ b \in {1, 3} ->
            View("FeedbackResponse", FALSE)
      [] admin.kind = "redirect" \/ admin.view # "" -> admin
      [] OTHER -> Redirect(CatchAll(b), FALSE)

\* The views behind the guard.
Protected == {"Layout", "Dashboard", "FormsList", "CreateForm", "EditForm",
              "FormAnalytics", "ResponsesList", "Settings"}

\* The login entry point of a build: the path its <Login /> route is at.
LoginEntry(b) == IF b = 2 THEN P(<<W("admin"), W("login")>>) ELSE P(<<W("login")>>)

\* PrivateRoute: its children if the session is authenticated, otherwise a
\* <Navigate> to the login entry point.
PrivateRoute(b, auth, route) ==
    IF route.guarded /\ ~auth THEN Redirect(LoginEntry(b), FALSE) ELSE route

\* a redirect chain is cut after MaxHops <Navigate>s
MaxHops == 4

\* Render the routes at path p, following each <Navigate> to its target.
RECURSIVE Resolve(_, _, _, _)
Resolve(b, auth, p, hops) ==
    LET r == PrivateRoute(b, auth, RouteTable(b, Split(p))) IN
    IF r.kind = "redirect"
    THEN IF hops = 0 THEN [location |-> p, rendered |-> {}]
         ELSE Resolve(b, auth, r.to, hops - 1)
    ELSE [location |-> p,
          rendered |-> IF r.guarded THEN {"Layout", r.view} ELSE {r.view}]

RInit ==
    /\ appBuild \in Builds
    /\ isAuthenticated = FALSE
    /\ requested = P(<<>>)
    /\ location = Resolve(appBuild, FALSE, P(<<>>), MaxHops).location
    /\ rendered = Resolve(appBuild, FALSE, P(<<>>), MaxHops).rendered

\* the variables held while another part of the program is checked
RIdle ==
    /\ appBuild = 1
    /\ isAuthenticated = FALSE
    /\ requested = P(<<>>)
    /\ location = P(<<>>)
    /\ rendered = {}

\* what every step of the router leaves alone: the rest of the program
RFrame == UNCHANGED <<nvars, avars, pvars, pgvars, favars, cfvars>>

\* a navigation to path p (a link, a typed address, navigate(p))
NavigateTo(p) ==
    /\ requested' = p
    /\ location' = Resolve(appBuild, isAuthenticated, p, MaxHops).location
    /\ rendered' = Resolve(appBuild, isAuthenticated, p, MaxHops).rendered
    /\ UNCHANGED <<appBuild, isAuthenticated>>
    /\ RFrame

\* the session store changes its answer (login, logout, a cleared session);
\* the routes at the current location render again
SessionChanges(auth) ==
    /\ auth # isAuthenticated
    /\ isAuthenticated' = auth
    /\ location' = Resolve(appBuild, auth, location, MaxHops).location
    /\ rendered' = Resolve(appBuild, auth, location, MaxHops).rendered
    /\ UNCHANGED <<appBuild, requested>>
    /\ RFrame

RNext ==
    \/ \E p \in Paths : NavigateTo(p)
    \/ \E auth \in BOOLEAN : SessionChanges(auth)

(***************************************************************************)
(* services/api: the axios instance and its two interceptors.              *)
(* Builds: 1 = the client of NotificationContext.tsx lines 157-336,        *)
(*         2 = the client of NotificationContext.tsx lines 337-527.        *)
(***************************************************************************)
ApiBuilds == 1..2

\* the bearer tokens a login can store
Tokens == {"t1", "t2"}

NoToken == ""

\* the status of an answer; NoResponse is a transport failure
\* (error.response is undefined)
NoResponse == 0
Statuses == {200, 401, 403, 404, 500, NoResponse}

\* window.location.href = '/login'
LoginHref == P(<<W("login")>>)

\* config.headers.Authorization, <<>> when the interceptor adds none
NoHeader == <<>>

\* mutant of AuthorizationFor: the header is set without the if (token) test
AuthorizationAlways(token) == <<"Token", token>>

\* if (token) config.headers.Authorization = `Token ${token}`
AuthorizationFor(token) == IF token # NoToken THEN <<"Token", token>> ELSE NoHeader

\* !currentPath.includes('/login') && !currentPath.includes('/feedback/')
NotOnPublicPath(p) ==
    /\ ~Includes(p, <<"/", "login">>)
    /\ ~Includes(p, <<"/", "feedback", "/">>)

\* whether the 401 branch of build b assigns window.location.href at path p
Redirects(b, p) == IF b = 1 THEN TRUE ELSE NotOnPublicPath(p)

\* mutant of TokenAfter: the 401 branch leaves the stored token alone
TokenKept(status, token) == token

\* localStorage.removeItem('authToken') in the 401 branch
TokenAfter(status, token) == IF status = 401 THEN NoToken ELSE token

\* mutant of Delivered: the 401 branch swallows the error
DeliveredBut401(status) == IF status \in {200, 401} THEN "resolved" ELSE "rejected"

\* the error handler's result: return Promise.reject(error);
\* the success handler's: (response) => response
Delivered(status) == IF status = 200 THEN "resolved" ELSE "rejected"

\* op:         the interceptor or event
\* status:     the status of the answer the response interceptor was given
\* redirected: whether it assigned window.location.href
\* delivered:  what the caller's promise got: "resolved" | "rejected"
\* header:     the Authorization header of the request sent or answered
\* token:      the stored token the response interceptor met
Api(o) == [op |-> o, status |-> 200, redirected |-> FALSE, delivered |-> "none",
           header |-> NoHeader, token |-> NoToken]

AInit ==
    /\ apiBuild \in ApiBuilds
    /\ authToken = NoToken
    /\ pathname = P(<<>>)
    /\ inflight = <<>>
    /\ lastApi = Api("init")

\* the variables held while another part of the program is checked
AIdle ==
    /\ apiBuild = 1
    /\ authToken = NoToken
    /\ pathname = P(<<>>)
    /\ inflight = <<>>
    /\ lastApi = Api("init")

\* what every step of the API client leaves alone: the rest of the program
AFrame == UNCHANGED <<nvars, rvars, pvars, pgvars, favars, cfvars>>

\* a login stores its token: localStorage.setItem('authToken', token)
StoreToken(t) ==
    /\ authToken # t
    /\ authToken' = t
    /\ lastApi' = Api("store")
    /\ UNCHANGED <<apiBuild, pathname, inflight>>
    /\ AFrame

\* a logout removes it
ClearToken ==
    /\ authToken # NoToken
    /\ authToken' = NoToken
    /\ lastApi' = Api("clear")
    /\ UNCHANGED <<apiBuild, pathname, inflight>>
    /\ AFrame

\* the user moves to another page of the application
BrowserNavigates(p) ==
    /\ p # pathname
    /\ pathname' = p
    /\ lastApi' = Api("navigate")
    /\ UNCHANGED <<apiBuild, authToken, inflight>>
    /\ AFrame

\* api.get / post / put / patch / delete: the request interceptor runs and
\* the request leaves
SendRequest ==
    /\ Len(inflight) < MaxRequests
    /\ inflight' = Append(inflight, AuthorizationFor(authToken))
    /\ lastApi' = [Api("send") EXCEPT !.header = AuthorizationFor(authToken)]
    /\ UNCHANGED <<apiBuild, authToken, pathname>>
    /\ AFrame

Without(q, i) == SubSeq(q, 1, i - 1) \o SubSeq(q, i + 1, Len(q))

\* request i is answered with a status (or fails in transport): the response
\* interceptor runs
ReceiveResponse(i, status) ==
    /\ i \in 1..Len(inflight)
    /\ inflight' = Without(inflight, i)
    /\ authToken' = TokenAfter(status, authToken)
    /\ pathname' = IF status = 401 /\ Redirects(apiBuild, pathname)
                   THEN LoginHref ELSE pathname
    /\ lastApi' = [Api("response") EXCEPT
                      !.status = status,
                      !.redirected = (status = 401 /\ Redirects(apiBuild, pathname)),
                      !.delivered = Delivered(status),
                      !.header = inflight[i],
                      !.token = authToken]
    /\ UNCHANGED apiBuild
    /\ AFrame

\* the page is left (closed, reloaded, replaced) before request i is answered
Abandon(i) ==
    /\ i \in 1..Len(inflight)
    /\ inflight' = Without(inflight, i)
    /\ lastApi' = Api("abandon")
    /\ UNCHANGED <<apiBuild, authToken, pathname>>
    /\ AFrame

ANext ==
    \/ \E t \in Tokens : StoreToken(t)
    \/ ClearToken
    \/ \E p \in Paths : BrowserNavigates(p)
    \/ SendRequest
    \/ \E i \in 1..MaxRequests, st \in Statuses : ReceiveResponse(i, st)
    \/ \E i \in 1..MaxRequests : Abandon(i)

(***************************************************************************)
(* PublicFeedbackForm.  Builds: 1 = pages/PublicFeedbackForm.tsx lines     *)
(* 1-359 (a success screen), 2 = lines 360-667 (navigate to the thank-you   *)
(* page).                                                                  *)
(***************************************************************************)
PfBuilds == 1..2

\* a form has at most MaxQuestions questions
MaxQuestions == 2

\* the kinds of input renderQuestionInput gives: one value (text, email,
\* textarea, radio, yes_no, phone: a string; rating, rating_10: a number
\* from 1 up, which validateForm's three tests treat as they treat a
\* non-empty string) or check boxes (an array)
QuestionTypes == {"text", "checkbox"}

\* A question, reduced to the fields the form reads.
Question == [id : 1..MaxQuestions, is_required : BOOLEAN, question_type : QuestionTypes]

\* the forms GET /api/public/feedback/:formId can answer with; the i-th
\* question has id i
PublicForms ==
    {[present |-> TRUE, questions |-> qs] :
        qs \in {q \in UNION {[1..n -> Question] : n \in 0..MaxQuestions} :
                    \A i \in 1..Len(q) : q[i].id = i}}

\* useState<FeedbackForm | null>(null)
NullForm == [present |-> FALSE, questions |-> <<>>]

\* An answer: its JavaScript type and, for a string or an array, its length.
Undefined == [type |-> "undefined", size |-> 0]
Str(n) == [type |-> "string", size |-> n]
Arr(n) == [type |-> "array", size |-> n]

\* the values the input of a question type hands to handleAnswerChange
InputValues(t) ==
    CASE t = "text" -> {Str(0), Str(1)}
      [] t = "checkbox" -> {Arr(0), Arr(1)}

\* the error strings: none, the one set by loadForm, the one set by handleSubmit
NoError == ""
LoadError == "Failed to load form"
SubmitError == "Failed to submit feedback. Please try again."

\* mutant of NoAnswer: the empty-array test is left out
NoAnswerButArrays(answer) ==
    \/ answer.type = "undefined"
    \/ (answer.type = "string" /\ answer.size = 0)

\* answer === undefined || answer === '' || (Array.isArray(answer) && answer.length === 0)
NoAnswer(answer) ==
    \/ answer.type = "undefined"
    \/ (answer.type = "string" /\ answer.size = 0)
    \/ (answer.type = "array" /\ answer.size = 0)

\* validateForm()
ValidateForm(form, answers) ==
    IF ~form.present THEN FALSE
    ELSE \A i \in 1..Len(form.questions) :
            form.questions[i].is_required => ~NoAnswer(answers[form.questions[i].id])

\* what the component renders: the early returns of its body, in order
Screen ==
    IF pfLoading THEN "loading"
    ELSE IF pfError # NoError THEN "error"
    ELSE IF ~pfForm.present THEN "notfound"
    ELSE IF pfSuccess THEN "success"
    ELSE "form"

\* op:    the handler or continuation
\* valid: what validateForm() answered in handleSubmit
Pf(o) == [op |-> o, valid |-> FALSE]

PInit ==
    /\ pfBuild \in PfBuilds
    /\ pfForm = NullForm
    /\ pfLoading = TRUE
    /\ pfSubmitting = FALSE
    /\ pfError = NoError
    /\ pfSuccess = FALSE
    /\ pfAnswers = [i \in 1..MaxQuestions |-> Undefined]
    /\ pfLoadPending = 0
    /\ pfSubmitPending = 0
    /\ pfLast = Pf("init")

\* the variables held while another part of the program is checked
PIdle ==
    /\ pfBuild = 1
    /\ pfForm = NullForm
    /\ pfLoading = TRUE
    /\ pfSubmitting = FALSE
    /\ pfError = NoError
    /\ pfSuccess = FALSE
    /\ pfAnswers = [i \in 1..MaxQuestions |-> Undefined]
    /\ pfLoadPending = 0
    /\ pfSubmitPending = 0
    /\ pfLast = Pf("init")

\* what every step of the public form leaves alone: the rest of the program
PFrame == UNCHANGED <<nvars, rvars, avars, pgvars, favars, cfvars>>

\* loadForm() up to its await: setLoading(true), the request is issued
LoadFormCall(o) ==
    /\ pfLoading' = TRUE
    /\ pfLoadPending' = pfLoadPending + 1
    /\ pfLast' = Pf(o)
    /\ UNCHANGED <<pfBuild, pfForm, pfSubmitting, pfError, pfSuccess, pfAnswers,
                   pfSubmitPending>>
    /\ PFrame

\* useEffect(() => { if (formId) loadForm() }, [formId, loadForm])
PfMount ==
    /\ pfLast.op = "init"
    /\ LoadFormCall("mount")

\* the error screen's "Try Again" button: onClick={loadForm}
TryAgain ==
    /\ Screen = "error"
    /\ LoadFormCall("tryAgain")

\* getPublicForm resolved: setForm(formData); finally setLoading(false)
LoadFormResolve(f) ==
    /\ pfLoadPending > 0
    /\ pfLoadPending' = pfLoadPending - 1
    /\ pfForm' = f
    /\ pfLoading' = FALSE
    /\ pfLast' = Pf("loadForm_ok")
    /\ UNCHANGED <<pfBuild, pfSubmitting, pfError, pfSuccess, pfAnswers,
                   pfSubmitPending>>
    /\ PFrame

\* getPublicForm rejected: setError(... || 'Failed to load form'); finally
\* setLoading(false)
LoadFormReject ==
    /\ pfLoadPending > 0
    /\ pfLoadPending' = pfLoadPending - 1
    /\ pfError' = LoadError
    /\ pfLoading' = FALSE
    /\ pfLast' = Pf("loadForm_failed")
    /\ UNCHANGED <<pfBuild, pfForm, pfSubmitting, pfSuccess, pfAnswers,
                   pfSubmitPending>>
    /\ PFrame

\* handleAnswerChange(questionId, value), from the input of question q
HandleAnswerChange(q, value) ==
    /\ Screen = "form"
    /\ q \in 1..Len(pfForm.questions)
    /\ value \in InputValues(pfForm.questions[q].question_type)
    /\ pfAnswers' = [pfAnswers EXCEPT ![pfForm.questions[q].id] = value]
    /\ pfLast' = Pf("handleAnswerChange")
    /\ UNCHANGED <<pfBuild, pfForm, pfLoading, pfSubmitting, pfError, pfSuccess,
                   pfLoadPending, pfSubmitPending>>
    /\ PFrame

\* handleSubmit up to its await (the submit button is disabled while
\* submitting): validation fails: alert(...) and return; otherwise
\* setSubmitting(true) and the request is issued
HandleSubmit ==
    /\ Screen = "form"
    /\ ~pfSubmitting
    /\ pfLast' = [Pf("handleSubmit") EXCEPT !.valid = ValidateForm(pfForm, pfAnswers)]
    /\ IF ~ValidateForm(pfForm, pfAnswers)
       THEN UNCHANGED <<pfSubmitting, pfSubmitPending>>
       ELSE /\ pfSubmitting' = TRUE
            /\ pfSubmitPending' = pfSubmitPending + 1
    /\ UNCHANGED <<pfBuild, pfForm, pfLoading, pfError, pfSuccess, pfAnswers,
                   pfLoadPending>>
    /\ PFrame

\* submitFeedback resolved: setSuccess(true) (build 1) or
\* navigate('/feedback/submitted') (build 2); finally setSubmitting(false)
SubmitResolve ==
    /\ pfSubmitPending > 0
    /\ pfSubmitPending' = pfSubmitPending - 1
    /\ pfSuccess' = TRUE
    /\ pfSubmitting' = FALSE
    /\ pfLast' = Pf("submit_ok")
    /\ UNCHANGED <<pfBuild, pfForm, pfLoading, pfError, pfAnswers, pfLoadPending>>
    /\ PFrame

\* submitFeedback rejected: setError(... || 'Failed to submit feedback. Please
\* try again.'); finally setSubmitting(false)
SubmitReject ==
    /\ pfSubmitPending > 0
    /\ pfSubmitPending' = pfSubmitPending - 1
    /\ pfError' = SubmitError
    /\ pfSubmitting' = FALSE
    /\ pfLast' = Pf("submit_failed")
    /\ UNCHANGED <<pfBuild, pfForm, pfLoading, pfSuccess, pfAnswers, pfLoadPending>>
    /\ PFrame

PNext ==
    \/ PfMount
    \/ TryAgain
    \/ \E f \in PublicForms : LoadFormResolve(f)
    \/ LoadFormReject
    \/ \E q \in 1..MaxQuestions, v \in {Str(0), Str(1), Arr(0), Arr(1)} :
          HandleAnswerChange(q, v)
    \/ HandleSubmit
    \/ SubmitResolve
    \/ SubmitReject

(***************************************************************************)
(* The pages that load their data in a mount effect: FormsList             *)
(* (pages/FormsList.tsx), ResponsesList (pages/ResponsesList.tsx),         *)
(* Dashboard (pages/Dashboard.tsx) and the Dashboard of unnamed/part_004.  *)
(***************************************************************************)
PageKinds == {"FormsList", "ResponsesList", "Dashboard", "Dashboard_part_004"}

\* useState<string | null>(null)
NoPageError == "null"

\* whether the page has an error state at all
HasErrorState(kind) == kind # "Dashboard_part_004"

\* the message the catch block of the page's load hands to setError; the
\* Dashboard of part_004 only logs
PageCatchMessage(kind) ==
    CASE kind = "FormsList" -> "Failed to load forms"
      [] kind = "ResponsesList" -> "Failed to load responses"
      [] kind = "Dashboard" -> "Failed to load dashboard data. Please try again."
      [] kind = "Dashboard_part_004" -> NoMessage

\* the error message the page renders
PageShown ==
    IF pgLoading THEN NoMessage
    ELSE IF pgError # NoPageError THEN pgError
    ELSE IF pgKind = "Dashboard_part_004" /\ pgData = "initial"
    THEN "Failed to load dashboard data"
    ELSE NoMessage

\* op:      the handler or continuation
\* shown:   the message a catch block made visible (setError, alert)
\* promise: how the promise of the async handler settled
\* id:      the form id handleDeleteForm was given (0: none)
Pg(o) == [op |-> o, shown |-> NoMessage, promise |-> "none", id |-> 0]

\* the forms list holds at most MaxForms forms, with ids 1..MaxForms
MaxForms == 3

\* delete calls in flight at a time
MaxDeletes == 2

FormIds == 1..MaxForms

\* the arrays GET /api/forms/ can answer with
FormLists ==
    {l \in UNION {[1..n -> FormIds] : n \in 0..MaxForms} :
        \A i, j \in 1..Len(l) : i < j => l[i] < l[j]}

\* a deleteForm call: the id it was given and the array its handler closed over
DeleteCalls == [id : FormIds, forms : FormLists]

\* what a page's load can resolve with; only FormsList's array is looked into
PageData(kind) == IF kind = "FormsList" THEN FormLists ELSE {<<>>}

InList(list, id) == \E i \in 1..Len(list) : list[i] = id

\* forms.filter(form => form.id !== formId)
RECURSIVE FilterOut(_, _)
FilterOut(list, id) ==
    IF list = <<>> THEN <<>>
    ELSE IF Head(list) = id THEN FilterOut(Tail(list), id)
    ELSE <<Head(list)>> \o FilterOut(Tail(list), id)

\* setForms(forms.filter(form => form.id !== formId)): forms is the array
\* of the render in which the delete button was clicked, not the current one
DeletedList(current, captured, id) == FilterOut(captured, id)

\* mutant of FailedDeleteList: the form is taken out although the call failed
FailedDeleteListRemoved(current, captured, id) == FilterOut(current, id)

\* the list after handleDeleteForm's catch block
FailedDeleteList(current, captured, id) == current

PgInit ==
    /\ pgKind \in PageKinds
    /\ pgData = "initial"
    /\ pgLoading = TRUE
    /\ pgError = NoPageError
    /\ pgPending = 0
    /\ pgForms = <<>>
    /\ pgDeletes = {}
    /\ pgDeleted = {}
    /\ pgLast = Pg("init")

\* the variables held while another part of the program is checked
PgIdle ==
    /\ pgKind = "FormsList"
    /\ pgData = "initial"
    /\ pgLoading = TRUE
    /\ pgError = NoPageError
    /\ pgPending = 0
    /\ pgForms = <<>>
    /\ pgDeletes = {}
    /\ pgDeleted = {}
    /\ pgLast = Pg("init")

\* what every step of a page leaves alone: the rest of the program
PgFrame == UNCHANGED <<nvars, rvars, avars, pvars, favars, cfvars>>

\* loadForms / loadResponses / loadDashboardData up to the await:
\* setLoading(true); setError(null); the request is issued
PageLoadCall(o) ==
    /\ pgLoading' = TRUE
    /\ pgError' = NoPageError
    /\ pgPending' = pgPending + 1
    /\ pgLast' = Pg(o)
    /\ UNCHANGED <<pgKind, pgData, pgForms, pgDeletes, pgDeleted>>
    /\ PgFrame

\* useEffect(() => { load() }, [])
PageMount ==
    /\ pgLast.op = "init"
    /\ PageLoadCall("mount")

\* Dashboard's error screen: <button onClick={loadDashboardData}>Try Again
PageTryAgain ==
    /\ pgKind = "Dashboard"
    /\ ~pgLoading
    /\ pgError # NoPageError
    /\ PageLoadCall("tryAgain")

\* the request resolved: setForms / setResponses / setSummary(data); finally
\* setLoading(false)
PageLoadResolve(data) ==
    /\ pgPending > 0
    /\ data \in PageData(pgKind)
    /\ pgPending' = pgPending - 1
    /\ pgData' = "loaded"
    /\ pgForms' = data
    /\ pgLoading' = FALSE
    /\ pgLast' = [Pg("load_ok") EXCEPT !.promise = "resolved"]
    /\ UNCHANGED <<pgKind, pgError, pgDeletes, pgDeleted>>
    /\ PgFrame

\* the request rejected: console.error; setError(message) where the page has
\* an error state; finally setLoading(false)
PageLoadReject ==
    /\ pgPending > 0
    /\ pgPending' = pgPending - 1
    /\ pgError' = IF HasErrorState(pgKind) THEN PageCatchMessage(pgKind) ELSE pgError
    /\ pgLoading' = FALSE
    /\ pgLast' = [Pg("load_failed") EXCEPT !.shown = PageCatchMessage(pgKind),
                                           !.promise = Caught]
    /\ UNCHANGED <<pgKind, pgData, pgForms, pgDeletes, pgDeleted>>
    /\ PgFrame

\* FormsList: the delete button of form id is clicked and the user answers
\* window.confirm.  Declined: nothing happens.  Confirmed: handleDeleteForm
\* runs to its await, the remote call is issued; it keeps the forms array
\* of the render it was created in.
HandleDeleteForm(id, confirmed) ==
    /\ pgKind = "FormsList"
    /\ ~pgLoading
    /\ InList(pgForms, id)
    /\ IF confirmed
       THEN /\ Cardinality(pgDeletes) < MaxDeletes
            /\ [id |-> id, forms |-> pgForms] \notin pgDeletes
            /\ pgDeletes' = pgDeletes \cup {[id |-> id, forms |-> pgForms]}
            /\ pgLast' = [Pg("delete_confirmed") EXCEPT !.id = id]
       ELSE /\ pgDeletes' = pgDeletes
            /\ pgLast' = [Pg("delete_declined") EXCEPT !.id = id, !.promise = "resolved"]
    /\ UNCHANGED <<pgKind, pgData, pgLoading, pgError, pgPending, pgForms, pgDeleted>>
    /\ PgFrame

\* deleteForm resolved: setForms(forms.filter(...)) with the array closed over
DeleteResolve(d) ==
    /\ d \in pgDeletes
    /\ pgDeletes' = pgDeletes \ {d}
    /\ pgForms' = DeletedList(pgForms, d.forms, d.id)
    /\ pgDeleted' = pgDeleted \cup {d.id}
    /\ pgLast' = [Pg("delete_ok") EXCEPT !.id = d.id, !.promise = "resolved"]
    /\ UNCHANGED <<pgKind, pgData, pgLoading, pgError, pgPending>>
    /\ PgFrame

\* deleteForm rejected: console.error; alert('Failed to delete form')
DeleteReject(d) ==
    /\ d \in pgDeletes
    /\ pgDeletes' = pgDeletes \ {d}
    /\ pgForms' = FailedDeleteList(pgForms, d.forms, d.id)
    /\ pgLast' = [Pg("delete_failed") EXCEPT !.id = d.id, !.promise = Caught,
                                             !.shown = "Failed to delete form"]
    /\ UNCHANGED <<pgKind, pgData, pgLoading, pgError, pgPending, pgDeleted>>
    /\ PgFrame

PgNext ==
    \/ PageMount
    \/ PageTryAgain
    \/ \E data \in FormLists \cup {<<>>} : PageLoadResolve(data)
    \/ PageLoadReject
    \/ \E id \in FormIds, confirmed \in BOOLEAN : HandleDeleteForm(id, confirmed)
    \/ \E d \in DeleteCalls : DeleteResolve(d)
    \/ \E d \in DeleteCalls : DeleteReject(d)

(***************************************************************************)
(* FormAnalytics.  Builds: 1 = unnamed/part_002, 2 = unnamed/part_003      *)
(* (lines 1-446).                                                          *)
(***************************************************************************)
FaBuilds == 1..2

\* the form ids the route can carry
FaIds == 1..2

\* handleRetry is not clicked more than MaxRetry times without a reset
MaxRetry == 2

\* loads of the analytics view in flight at a time
MaxAnalyticsLoads == 2

\* the statuses a failed request of the view can carry
FaStatuses == {400, 401, 404, 500, NoResponse}

\* the catch block's choice of errorType; the last one is spelled 'general'
\* in part_002 and 'generic' in part_003
ErrorTypeFor(b, status) ==
    IF status = 401 THEN "auth"
    ELSE IF status = 404 THEN "notfound"
    ELSE IF status # NoResponse /\ status >= 500 THEN "network"
    ELSE IF status = NoResponse THEN "network"
    ELSE IF b = 1 THEN "general" ELSE "generic"

\* [id, isAuthenticated, retryCount]
FaDepsNow == <<faId, faAuth, faRetryCount>>

\* the error view shows "Try Again" unless errorType is 'auth'
ShowsTryAgain == ~faLoading /\ faError \notin {"", "auth"}

\* setRetryCount(0) on success: in part_002 only
RetryCountAfterSuccess(b, c) == IF b = 1 THEN 0 ELSE c

\* op:      the handler, effect or continuation
\* cause:   for an effect run, the event that changed its dependencies
\* started: for an effect run, whether it started a load
Fa(o) == [op |-> o, cause |-> "none", started |-> FALSE]

FaInit ==
    /\ faBuild \in FaBuilds
    /\ faId = 1
    /\ faAuth \in BOOLEAN
    /\ faRetryCount = 0
    /\ faLoading = TRUE
    /\ faError = ""
    /\ faLoaded = FALSE
    /\ faDeps = <<>>
    /\ faTrigger = "mount"
    /\ faStage1 = 0
    /\ faStage2 = 0
    /\ faLast = Fa("init")

\* the variables held while another part of the program is checked
FaIdle ==
    /\ faBuild = 1
    /\ faId = 1
    /\ faAuth = FALSE
    /\ faRetryCount = 0
    /\ faLoading = TRUE
    /\ faError = ""
    /\ faLoaded = FALSE
    /\ faDeps = <<>>
    /\ faTrigger = "mount"
    /\ faStage1 = 0
    /\ faStage2 = 0
    /\ faLast = Fa("init")

\* what every step of the analytics view leaves alone: the rest of the program
FaFrame == UNCHANGED <<nvars, rvars, avars, pvars, pgvars, cfvars>>

\* the effect has run for the dependencies of the current render; events
\* and continuations are handled after that
EffectsFlushed == faDeps = FaDepsNow

\* useEffect(() => {...}, [id, isAuthenticated, retryCount]): runs after the
\* first render and after every render in which a dependency has changed.
\* Not authenticated: setError, setErrorType('auth'), setLoading(false).
\* Otherwise loadAnalytics() runs to its first await: setLoading(true),
\* setError(''), formsAPI.getForm(id) is issued.
EffectRuns ==
    /\ ~EffectsFlushed
    /\ faDeps' = FaDepsNow
    /\ IF ~faAuth
       THEN /\ faError' = "auth"
            /\ faLoading' = FALSE
            /\ faStage1' = faStage1
       ELSE /\ faError' = ""
            /\ faLoading' = TRUE
            /\ faStage1' = faStage1 + 1
    /\ faLast' = [Fa("effect") EXCEPT !.cause = faTrigger, !.started = faAuth]
    /\ UNCHANGED <<faBuild, faId, faAuth, faRetryCount, faLoaded, faTrigger, faStage2>>
    /\ FaFrame

\* handleRetry: setRetryCount(prev => prev + 1)
HandleRetry ==
    /\ EffectsFlushed
    /\ ShowsTryAgain
    /\ faRetryCount < MaxRetry
    /\ faRetryCount' = faRetryCount + 1
    /\ faTrigger' = "retry"
    /\ faLast' = Fa("handleRetry")
    /\ UNCHANGED <<faBuild, faId, faAuth, faLoading, faError, faLoaded, faDeps,
                   faStage1, faStage2>>
    /\ FaFrame

\* the session store changes its answer (login, logout)
FaAuthChanges ==
    /\ EffectsFlushed
    /\ faStage1 + faStage2 < MaxAnalyticsLoads
    /\ faAuth' = ~faAuth
    /\ faTrigger' = "auth"
    /\ faLast' = Fa("authChanges")
    /\ UNCHANGED <<faBuild, faId, faRetryCount, faLoading, faError, faLoaded, faDeps,
                   faStage1, faStage2>>
    /\ FaFrame

\* the route's :id changes while the view stays mounted
FaIdChanges(i) ==
    /\ EffectsFlushed
    /\ faStage1 + faStage2 < MaxAnalyticsLoads
    /\ i # faId
    /\ faId' = i
    /\ faTrigger' = "id"
    /\ faLast' = Fa("idChanges")
    /\ UNCHANGED <<faBuild, faAuth, faRetryCount, faLoading, faError, faLoaded, faDeps,
                   faStage1, faStage2>>
    /\ FaFrame

\* getForm resolved: setForm(formData); the two analytics requests are issued
GetFormResolve ==
    /\ EffectsFlushed
    /\ faStage1 > 0
    /\ faStage1' = faStage1 - 1
    /\ faStage2' = faStage2 + 1
    /\ faLast' = Fa("getForm_ok")
    /\ UNCHANGED <<faBuild, faId, faAuth, faRetryCount, faLoading, faError, faLoaded,
                   faDeps, faTrigger>>
    /\ FaFrame

\* Promise.all resolved: setAnalytics, setQuestionAnalytics, (part_002)
\* setRetryCount(0); finally setLoading(false)
AnalyticsResolve ==
    /\ EffectsFlushed
    /\ faStage2 > 0
    /\ faStage2' = faStage2 - 1
    /\ faLoaded' = TRUE
    /\ faRetryCount' = RetryCountAfterSuccess(faBuild, faRetryCount)
    /\ faTrigger' = IF RetryCountAfterSuccess(faBuild, faRetryCount) # faRetryCount
                    THEN "load_ok" ELSE faTrigger
    /\ faLoading' = FALSE
    /\ faLast' = Fa("load_ok")
    /\ UNCHANGED <<faBuild, faId, faAuth, faError, faDeps, faStage1>>
    /\ FaFrame

\* getForm (stage 1) or Promise.all (stage 2) rejected: the catch block sets
\* error and errorType by status; finally setLoading(false)
AnalyticsReject(stage, status) ==
    /\ EffectsFlushed
    /\ IF stage = 1
       THEN faStage1 > 0 /\ faStage1' = faStage1 - 1 /\ faStage2' = faStage2
       ELSE faStage2 > 0 /\ faStage2' = faStage2 - 1 /\ faStage1' = faStage1
    /\ faError' = ErrorTypeFor(faBuild, status)
    /\ faLoading' = FALSE
    /\ faLast' = Fa("load_failed")
    /\ UNCHANGED <<faBuild, faId, faAuth, faRetryCount, faLoaded, faDeps, faTrigger>>
    /\ FaFrame

FaNext ==
    \/ EffectRuns
    \/ HandleRetry
    \/ FaAuthChanges
    \/ \E i \in FaIds : FaIdChanges(i)
    \/ GetFormResolve
    \/ AnalyticsResolve
    \/ \E stage \in 1..2, st \in FaStatuses : AnalyticsReject(stage, st)

(***************************************************************************)
(* CreateForm (pages/Dashboard.tsx, lines 422-827) and EditForm            *)
(* (pages/FeedbackResponse.tsx, lines 74-576): the question editor and     *)
(* handleSubmit.                                                           *)
(***************************************************************************)
EditorKinds == {"CreateForm", "EditForm"}

\* the editor holds at most MaxEditorQuestions questions
MaxEditorQuestions == 2

\* a question holds at most MaxOptions options
MaxOptions == 2

\* what a text input can hold: nothing, white space only, something else
Texts == {"", " ", "a"}

\* a handleSubmit that tests the texts as typed
Untrimmed(t) == t

\* String.prototype.trim
Trim(t) == IF t = " " THEN "" ELSE t

\* the types the select offers: one without options and the two with
EditorTypes == {"text", "radio", "checkbox"}

\* n options as addOption leaves them
Options(n) == [i \in 1..n |-> ""]

\* CreateQuestionData (is_required plays no part)
EditorQuestion ==
    [text : Texts, question_type : EditorTypes, order : 0..MaxEditorQuestions,
     options : {Options(n) : n \in 0..MaxOptions}]

\* an editor that leaves the order fields as they were
OrderKept(qs) == qs

\* [...].map((q, i) => ({...q, order: i})) and forEach((q, i) => q.order = i):
\* the list's indices are 1.. here and 0.. in the code
Reordered(qs) == [i \in 1..Len(qs) |-> [qs[i] EXCEPT !.order = i - 1]]

\* the question lists the editor can hold
EditorLists ==
    {Reordered(qs) : qs \in UNION {[1..n -> {q \in EditorQuestion : q.order = 0}] :
                                     n \in 0..MaxEditorQuestions}}

\* addQuestion's newQuestion
NewQuestion(len) ==
    [text |-> "", question_type |-> "text", order |-> len, options |-> <<>>]

\* questions.filter((_, i) => i !== index), index counted from 0
WithoutIndex(qs, index) ==
    [i \in 1..(Len(qs) - 1) |-> IF i <= index THEN qs[i] ELSE qs[i + 1]]

\* [a[index], a[newIndex]] = [a[newIndex], a[index]], both counted from 0
Swapped(qs, index, newIndex) ==
    [i \in 1..Len(qs) |-> IF i = index + 1 THEN qs[newIndex + 1]
                          ELSE IF i = newIndex + 1 THEN qs[index + 1]
                          ELSE qs[i]]

Directions == {"up", "down"}

\* moveQuestion's early return
MoveRefused(qs, index, direction) ==
    \/ direction = "up" /\ index = 0
    \/ direction = "down" /\ index = Len(qs) - 1

\* ['radio', 'checkbox'].includes(question_type)
HasOptions(q) == q.question_type \in {"radio", "checkbox"}

NoAlert == [msg |-> "", question |-> 0]

\* what handleSubmit's validation alerts, NoAlert when it passes; the loop
\* returns at the first question (counted from 1) that fails either test
ValidationAlert(title, qs) ==
    IF Trim(title) = "" THEN [msg |-> "Please enter a form title", question |-> 0]
    ELSE IF Len(qs) = 0 THEN [msg |-> "Please add at least one question", question |-> 0]
    ELSE LET failing == {i \in 1..Len(qs) :
                            \/ Trim(qs[i].text) = ""
                            \/ HasOptions(qs[i]) /\ Len(qs[i].options) < 2}
         IN  IF failing = {} THEN NoAlert
             ELSE LET i == CHOOSE k \in failing : \A j \in failing : k <= j
                  IN  IF Trim(qs[i].text) = ""
                      THEN [msg |-> "Please enter text for question", question |-> i]
                      ELSE [msg |-> "needs at least 2 options", question |-> i]

\* op:        the handler or continuation
\* index:     the index moveQuestion was given (counted from 0), -1 otherwise
\* direction: moveQuestion's direction
\* alert:     what was alerted
Cf(o) == [op |-> o, index |-> -1, direction |-> "", alert |-> NoAlert]

\* the page right after its first render (EditForm: before its form arrives)
CfInit ==
    /\ cfKind = "CreateForm"
    /\ cfTitle = ""
    /\ cfQuestions = <<>>
    /\ cfLoading = FALSE
    /\ cfPending = 0
    /\ cfOpen = TRUE
    /\ cfLast = Cf("init")

\* the variables held while another part of the program is checked
CfIdle == CfInit

\* either page as the user has filled it in, about to press the submit button
CfFilledIn ==
    /\ cfKind \in EditorKinds
    /\ cfTitle \in Texts
    /\ cfQuestions \in EditorLists
    /\ cfLoading = FALSE
    /\ cfPending = 0
    /\ cfOpen = TRUE
    /\ cfLast = Cf("init")

\* what every step of the two pages leaves alone: the rest of the program
CfFrame == UNCHANGED <<nvars, rvars, avars, pvars, pgvars, favars>>

AddQuestion ==
    /\ cfOpen
    /\ Len(cfQuestions) < MaxEditorQuestions
    /\ cfQuestions' = Append(cfQuestions, NewQuestion(Len(cfQuestions)))
    /\ cfLast' = Cf("addQuestion")
    /\ UNCHANGED <<cfKind, cfTitle, cfLoading, cfPending, cfOpen>>
    /\ CfFrame

RemoveQuestion(index) ==
    /\ cfOpen
    /\ index < Len(cfQuestions)
    /\ cfQuestions' = Reordered(WithoutIndex(cfQuestions, index))
    /\ cfLast' = Cf("removeQuestion")
    /\ UNCHANGED <<cfKind, cfTitle, cfLoading, cfPending, cfOpen>>
    /\ CfFrame

\* updateQuestion(index, 'text', value)
UpdateQuestionText(index, value) ==
    /\ cfOpen
    /\ index < Len(cfQuestions)
    /\ cfQuestions' = [cfQuestions EXCEPT ![index + 1].text = value]
    /\ cfLast' = Cf("updateQuestion")
    /\ UNCHANGED <<cfKind, cfTitle, cfLoading, cfPending, cfOpen>>
    /\ CfFrame

\* updateQuestion(index, 'question_type', value)
UpdateQuestionType(index, value) ==
    /\ cfOpen
    /\ index < Len(cfQuestions)
    /\ cfQuestions' = [cfQuestions EXCEPT ![index + 1].question_type = value]
    /\ cfLast' = Cf("updateQuestion")
    /\ UNCHANGED <<cfKind, cfTitle, cfLoading, cfPending, cfOpen>>
    /\ CfFrame

MoveQuestion(index, direction) ==
    /\ cfOpen
    /\ index < Len(cfQuestions)
    /\ cfQuestions' =
          IF MoveRefused(cfQuestions, index, direction) THEN cfQuestions
          ELSE Reordered(Swapped(cfQuestions, index,
                                 IF direction = "up" THEN index - 1 ELSE index + 1))
    /\ cfLast' = [Cf("moveQuestion") EXCEPT !.index = index, !.direction = direction]
    /\ UNCHANGED <<cfKind, cfTitle, cfLoading, cfPending, cfOpen>>
    /\ CfFrame

\* offered for radio and checkbox questions only (renderQuestionOptions)
AddOption(questionIndex) ==
    /\ cfOpen
    /\ questionIndex < Len(cfQuestions)
    /\ HasOptions(cfQuestions[questionIndex + 1])
    /\ Len(cfQuestions[questionIndex + 1].options) < MaxOptions
    /\ cfQuestions' = [cfQuestions EXCEPT ![questionIndex + 1].options = Append(@, "")]
    /\ cfLast' = Cf("addOption")
    /\ UNCHANGED <<cfKind, cfTitle, cfLoading, cfPending, cfOpen>>
    /\ CfFrame

RemoveOption(questionIndex, optionIndex) ==
    /\ cfOpen
    /\ questionIndex < Len(cfQuestions)
    /\ HasOptions(cfQuestions[questionIndex + 1])
    /\ optionIndex < Len(cfQuestions[questionIndex + 1].options)
    /\ cfQuestions' = [cfQuestions EXCEPT ![questionIndex + 1].options =
                                              WithoutIndex(@, optionIndex)]
    /\ cfLast' = Cf("removeOption")
    /\ UNCHANGED <<cfKind, cfTitle, cfLoading, cfPending, cfOpen>>
    /\ CfFrame

\* handleSubmit up to its await; the submit button is disabled while loading
CfHandleSubmit ==
    /\ cfOpen
    /\ ~cfLoading
    /\ LET alert == ValidationAlert(cfTitle, cfQuestions)
       IN  /\ cfLast' = [Cf("handleSubmit") EXCEPT !.alert = alert]
           /\ IF alert # NoAlert
              THEN UNCHANGED <<cfLoading, cfPending>>
              ELSE /\ cfLoading' = TRUE
                   /\ cfPending' = cfPending + 1
    /\ UNCHANGED <<cfKind, cfTitle, cfQuestions, cfOpen>>
    /\ CfFrame

\* createForm / updateForm resolved: (EditForm: alert "updated successfully")
\* navigate away; finally setLoading(false)
CfSubmitResolve ==
    /\ cfPending > 0
    /\ cfPending' = cfPending - 1
    /\ cfOpen' = FALSE
    /\ cfLoading' = FALSE
    /\ cfLast' = Cf("submit_ok")
    /\ UNCHANGED <<cfKind, cfTitle, cfQuestions>>
    /\ CfFrame

\* createForm / updateForm rejected: alert; finally setLoading(false)
CfSubmitReject ==
    /\ cfPending > 0
    /\ cfPending' = cfPending - 1
    /\ cfLoading' = FALSE
    /\ cfLast' = [Cf("submit_failed") EXCEPT
                     !.alert = [msg |-> IF cfKind = "CreateForm"
                                        THEN "Failed to create form. Please try again."
                                        ELSE "Failed to update form. Please try again.",
                                question |-> 0]]
    /\ UNCHANGED <<cfKind, cfTitle, cfQuestions, cfOpen>>
    /\ CfFrame

EditorIndices == 0..(MaxEditorQuestions - 1)

EditorNext ==
    \/ AddQuestion
    \/ \E i \in EditorIndices : RemoveQuestion(i)
    \/ \E i \in EditorIndices, t \in Texts : UpdateQuestionText(i, t)
    \/ \E i \in EditorIndices, t \in EditorTypes : UpdateQuestionType(i, t)
    \/ \E i \in EditorIndices, d \in Directions : MoveQuestion(i, d)
    \/ \E i \in EditorIndices : AddOption(i)
    \/ \E i \in EditorIndices, j \in 0..(MaxOptions - 1) : RemoveOption(i, j)

SubmitNext ==
    \/ CfHandleSubmit
    \/ CfSubmitResolve
    \/ CfSubmitReject

Init == NInit /\ RIdle /\ AIdle /\ PIdle /\ PgIdle /\ FaIdle /\ CfIdle

Next == NNext

\* the notification aggregator
Spec == Init /\ [][Next]_vars

RouteInit == RInit /\ NIdle /\ AIdle /\ PIdle /\ PgIdle /\ FaIdle /\ CfIdle

\* the route table and its guard
RouteSpec == RouteInit /\ [][RNext]_vars

ApiInit == AInit /\ NIdle /\ RIdle /\ PIdle /\ PgIdle /\ FaIdle /\ CfIdle

\* the API client
ApiSpec == ApiInit /\ [][ANext]_vars

PublicInit == PInit /\ NIdle /\ RIdle /\ AIdle /\ PgIdle /\ FaIdle /\ CfIdle

\* the public feedback form
PublicSpec == PublicInit /\ [][PNext]_vars

AnalyticsInit == FaInit /\ NIdle /\ RIdle /\ AIdle /\ PIdle /\ PgIdle /\ CfIdle

\* the form analytics view
AnalyticsSpec == AnalyticsInit /\ [][FaNext]_vars

EditorInit == CfInit /\ NIdle /\ RIdle /\ AIdle /\ PIdle /\ PgIdle /\ FaIdle

\* the question editor of CreateForm
EditorSpec == EditorInit /\ [][EditorNext]_vars

SubmitInit == CfFilledIn /\ NIdle /\ RIdle /\ AIdle /\ PIdle /\ PgIdle /\ FaIdle

\* handleSubmit of CreateForm and EditForm on a filled-in form
SubmitSpec == SubmitInit /\ [][SubmitNext]_vars

PageInit == PgInit /\ NIdle /\ RIdle /\ AIdle /\ PIdle /\ FaIdle /\ CfIdle

\* the pages that load on mount
PageSpec == PageInit /\ [][PgNext]_vars

(***************************************************************************)
(* Properties of the notification aggregator                               *)
(***************************************************************************)
\* the entry the last handler was given
GivenEntry(l) == [id |-> l.id, is_read |-> l.is_read]

\* the ids of a list, in order
IdsOf(list) == [i \in 1..Len(list) |-> list[i].id]

\* C1: each addNotification call makes the list exactly one longer, with the
\* entry it was given at index 0 (position 1 here) and the entries present
\* before following it in their previous order.
C1_AddPrependsOne ==
    [][last'.op = "addNotification" =>
          /\ Len(notifications') = Len(notifications) + 1
          /\ notifications'[1] = GivenEntry(last')
          /\ \A i \in 1..Len(notifications) :
                notifications'[i + 1] = notifications[i]]_vars

\* C1's case: an addNotification call has run on a list that already held a
\* different entry.
C1_Witness ==
    /\ last.op = "addNotification"
    /\ Len(notifications) >= 2
    /\ notifications[1] # notifications[2]

C2_WitnessFloor ==
    /\ last.op = "markAsRead_ok"
    /\ last.found = "unread"
    /\ unreadCount = 0
    /\ Len(notifications) = 2

\* C3 (as claimed): a markAsRead(id) that directly repeats a successful
\* markAsRead of the same id, its entry being read already, leaves the
\* unread counter unchanged.
C3_NoDoubleDecrement ==
    [][(last'.op = "markAsRead_ok" /\ last'.again
            /\ HasId(notifications, last'.id)
            /\ ~HasUnreadId(notifications, last'.id)) =>
          unreadCount' = unreadCount]_vars

C5_PushBeforeFetchIsKept ==
    [][(last.op = "push_notification" /\ Len(notifications) = 1
            /\ last'.op = "loadResolve" /\ last'.fetched = 1 /\ last'.val = 1) =>
          Len(notifications') = 2]_vars

C8_PushCountOverwrites ==
    [][last'.op = "push_count" =>
          /\ unreadCount' = last'.val
          /\ notifications' = notifications]_vars

\* C8's case: the delivered value differs from the number of unread entries.
C8_Witness ==
    /\ last.op = "push_count"
    /\ unreadCount = last.val
    /\ unreadCount # Unread(notifications)
    /\ Len(notifications) >= 1

\* both requests of loadNotifications have been answered or have failed
Settled == loadPc \in {"resolved", "rejected"} /\ outstanding = {}

\* C13: once loadNotifications' Promise.all has resolved or rejected, and so
\* once both fetches have settled, the loading flag is false; once false, the
\* flag is never true again.
C13_LoadingEndsFalse ==
    [][/\ loadPc' \in {"resolved", "rejected"} => ~loading'
       /\ Settled' => ~loading'
       /\ ~loading => ~loading']_vars

\* C13's case: one fetch failed, the other settled after it, and the flag is
\* false.
C13_Witness ==
    /\ last.op = "lateAnswer"
    /\ loadPc = "rejected"
    /\ Settled
    /\ ~loading

\* C14: a failed initial fetch (either request) changes neither the list nor
\* the counter, issues no request, and no request is issued after it.
C14_FailedLoadChangesNothing ==
    [][/\ last'.op = "loadReject" =>
             /\ notifications' = notifications
             /\ unreadCount' = unreadCount
             /\ outstanding' \subseteq outstanding \ {last'.req}
       /\ loadPc = "rejected" =>
             /\ loadPc' = "rejected"
             /\ outstanding' \subseteq outstanding]_vars

\* C14's case: the fetch failed after a push event had put an entry in the
\* list and raised the counter; both are still there.
C14_Witness ==
    /\ last.op = "loadReject"
    /\ Len(notifications) >= 1
    /\ unreadCount >= 1
\* the handlers of the two push events that build an entry
PushAdds == {"push_notification", "push_new_response"}

\* C15: each "notification" and each "new_response" push event makes the list
\* exactly one longer, the new entry at the front carrying the event's id and
\* read flag false, the earlier entries behind it unchanged, and raises the
\* counter by exactly 1.
C15_PushAddsOneUnread ==
    [][last'.op \in PushAdds =>
          /\ Len(notifications') = Len(notifications) + 1
          /\ notifications'[1].id = last'.id
          /\ notifications'[1].is_read = FALSE
          /\ Tail(notifications') = notifications
          /\ unreadCount' = unreadCount + 1]_vars

\* C15's case: a "new_response" event arrived on a list that held an entry
\* already read, with the counter at 0 before it.
C15_Witness ==
    /\ last.op = "push_new_response"
    /\ Len(notifications) = 2
    /\ ~notifications[1].is_read
    /\ notifications[2].is_read
    /\ unreadCount = 1

\* the handlers of the three push events
PushHandlers == PushAdds \cup {"push_count"}

\* C16: once the provider has unmounted no push handler is registered and
\* none runs; a push event delivered then changes neither the list nor the
\* counter.
C16_NoPushAfterUnmount ==
    [][scope = "unmounted" =>
          /\ subscribed' = {}
          /\ last'.op \notin PushHandlers
          /\ last'.op = "push_ignored" =>
                /\ notifications' = notifications
                /\ unreadCount' = unreadCount]_vars

\* C16's case: a push event was delivered after the provider unmounted with
\* a list and a counter it would have changed.
C16_Witness ==
    /\ scope = "unmounted"
    /\ last.op = "push_ignored"
    /\ Len(notifications) = 1
    /\ unreadCount = 1

\* C17: a push event whose id the list already holds is still prepended as a
\* new entry: the list grows by one, every earlier entry is kept, and the id
\* is then held by more entries than before.
C17_PushNeverDeduplicated ==
    [][(last'.op \in PushAdds /\ HasId(notifications, last'.id)) =>
          /\ Len(notifications') = Len(notifications) + 1
          /\ \A i \in 1..Len(notifications) : notifications'[i + 1] = notifications[i]
          /\ Cardinality({i \in 1..Len(notifications') : notifications'[i].id = last'.id})
                = Cardinality({i \in 1..Len(notifications) : notifications[i].id = last'.id}) + 1]_vars

\* C17's case: after a "notification" event the list holds two entries with
\* the same id and the same content.
C17_Witness ==
    /\ last.op = "push_notification"
    /\ Len(notifications) = 2
    /\ notifications[1] = notifications[2]

\* C18: the counter's updates do not consult the list.  A "notification_count"
\* event sets the counter and leaves the number of unread entries alone; a
\* markAsRead that marks no unread entry decrements the counter all the same;
\* an addNotification of an entry already read increments it.
C18_CounterUpdatesIgnoreList ==
    [][/\ last'.op = "push_count" =>
             /\ unreadCount' = last'.val
             /\ Unread(notifications') = Unread(notifications)
       /\ (last'.op = "markAsRead_ok" /\ ~HasUnreadId(notifications, last'.id)) =>
             /\ unreadCount' = Decrement(unreadCount)
             /\ Unread(notifications') = Unread(notifications)
       /\ (last'.op = "addNotification" /\ last'.is_read) =>
             /\ unreadCount' = unreadCount + 1
             /\ Unread(notifications') = Unread(notifications)]_vars

\* C18's case: the counter and the number of unread entries agreed, a
\* markAsRead of an entry already read ran, and they differ.
C18_Witness ==
    /\ last.op = "markAsRead_ok"
    /\ last.found = "read"
    /\ unreadCount + 1 = Unread(notifications)
\* the continuations that run the catch block of a notification operation
NotificationFailures == {"loadReject", "markAsRead_failed", "markAllAsRead_failed"}

\* C20 (as claimed): every failed remote call of a notification operation is
\* caught, turned into a user-visible message, and not rethrown.
C20_FailureCaughtAndShown ==
    [][last'.op \in NotificationFailures =>
          /\ last'.promise = "resolved"
          /\ last'.shown # NoMessage]_vars

\* C20 (amended): every failed remote call of a notification operation is
\* caught and not rethrown (the operation's promise resolves), and it is
\* logged only: no message is made visible and what the provider hands to
\* its consumers is as before, but for the loading flag that the failed
\* initial fetch clears.
C20_FailureCaughtAndLoggedOnly ==
    [][last'.op \in NotificationFailures =>
          /\ last'.promise = "resolved"
          /\ last'.shown = NoMessage
          /\ notifications' = notifications
          /\ unreadCount' = unreadCount
          /\ loading' = (IF last'.op = "loadReject" THEN FALSE ELSE loading)]_vars

\* C20's case: the initial fetch has failed and, after it, the remote call
\* of a markAllAsRead, with an unread entry in the list.
C20_Witness ==
    /\ last.op = "markAllAsRead_failed"
    /\ last.promise = "resolved"
    /\ loadPc = "rejected"
    /\ Unread(notifications) >= 1
\* C21: the effect's cleanup leaves the initial fetch in flight and touches
\* nothing but the push registrations; a fetch that resolves after the
\* provider unmounted still puts its list and its count in place and clears
\* the loading flag.
C21_FetchNotCancelledByUnmount ==
    [][/\ last'.op = "unmount" =>
             /\ outstanding' = outstanding
             /\ loadPc' = loadPc
             /\ notifications' = notifications
             /\ unreadCount' = unreadCount
       /\ (scope = "unmounted" /\ last'.op = "loadResolve") =>
             /\ Len(notifications') = last'.fetched
             /\ notifications' \in ServerLists
             /\ unreadCount' = last'.val
             /\ ~loading']_vars

\* C21's case: the provider unmounted with an empty list while the fetch was
\* in flight, and the fetch has then resolved with one entry and count 1.
C21_Witness ==
    /\ scope = "unmounted"
    /\ last.op = "loadResolve"
    /\ last.fetched = 1
    /\ Len(notifications) = 1
    /\ unreadCount = 1
    /\ last.val = 1

\* C27: the unread counter is never negative, the counts the server supplies
\* (fetched or pushed) being 0 or more.
C27_CounterNeverNegative == unreadCount >= 0

\* C27's case: a markAsRead succeeded while the counter was 0 already, and
\* the counter is 0.
C27_Witness ==
    /\ last.op = "markAsRead_ok"
    /\ last.val = 0
    /\ unreadCount = 0

\* C28 (as claimed): a successful markAsRead(id) whose id matches no entry of
\* the list leaves the list and the unread counter unchanged.
C28_MissingIdChangesNothing ==
    [][(last'.op = "markAsRead_ok" /\ ~HasId(notifications, last'.id)) =>
          /\ notifications' = notifications
          /\ unreadCount' = unreadCount]_vars

(***************************************************************************)
(* Properties of the route guard                                           *)
(***************************************************************************)
\* a path under /admin
UnderAdmin(p) == Split(p) # <<>> /\ Head(Split(p)) = W("admin")

\* a path one of the build's routes matches, the catch-all aside
Matched(b, p) == RouteTable(b, Split(p)) # Redirect(CatchAll(b), FALSE)

\* C9 (as claimed): while the session is unauthenticated, a navigation to any
\* path under /admin ends at the login route and renders no protected view.
C9_AdminEndsAtLogin ==
    (~isAuthenticated /\ UnderAdmin(requested)) =>
        /\ rendered = {"Login"}
        /\ rendered \cap Protected = {}

\* C9 (amended): while the session is unauthenticated no protected view is
\* rendered, wherever the navigation went; a navigation to a path under /admin
\* that a route matches ends at the login route, and one that no route matches
\* ends where the build's catch-all route leads: the login route in builds 1
\* and 4, the public landing page "/" in builds 2 and 3.
C9_GuardKeepsProtectedOut ==
    ~isAuthenticated =>
        /\ rendered \cap Protected = {}
        /\ UnderAdmin(requested) =>
              IF Matched(appBuild, requested)
              THEN /\ rendered = {"Login"}
                   /\ location = (IF appBuild = 2 THEN P(<<W("admin"), W("login")>>)
                                  ELSE P(<<W("login")>>))
              ELSE IF appBuild \in {1, 4}
              THEN rendered = {"Login"} /\ location = P(<<W("login")>>)
              ELSE rendered = {"UserAccess"} /\ location = P(<<>>)

\* C9's case: an unauthenticated navigation to /admin/dashboard was turned
\* away by the guard and ended at the login route.
C9_Witness ==
    /\ ~isAuthenticated
    /\ requested = P(<<W("admin"), W("dashboard")>>)
    /\ rendered = {"Login"}
    /\ location # requested

(***************************************************************************)
(* Properties of the API client                                            *)
(***************************************************************************)
\* the path is a login path or a public feedback path
OnPublicPath(p) == Includes(p, <<"/", "login">>) \/ Includes(p, <<"/", "feedback", "/">>)

\* C10 (as claimed): a 401 answer redirects the browser to the login entry
\* point, except on a path that contains "/login" or "/feedback/", where no
\* redirect happens.
C10_RedirectUnlessPublic ==
    [][(lastApi'.op = "response" /\ lastApi'.status = 401) =>
          IF OnPublicPath(pathname)
          THEN ~lastApi'.redirected /\ pathname' = pathname
          ELSE lastApi'.redirected /\ pathname' = LoginHref]_vars

\* The claim of C10 restricted to the client of lines 337-527, which holds.
C10_SecondClientRedirectsUnlessPublic ==
    [][(apiBuild = 2 /\ lastApi'.op = "response" /\ lastApi'.status = 401) =>
          IF OnPublicPath(pathname)
          THEN ~lastApi'.redirected /\ pathname' = pathname
          ELSE lastApi'.redirected /\ pathname' = LoginHref]_vars

\* C11: a request sent while a token is stored carries the Authorization
\* header "Token <that token>"; a request sent while no token is stored (none
\* yet, or cleared by a 401 or a logout) carries none.  The header is fixed
\* when the request is sent: later changes of the store do not touch it.
C11_HeaderFromStoredToken ==
    [][lastApi'.op = "send" =>
          /\ Len(inflight') = Len(inflight) + 1
          /\ inflight'[Len(inflight')] = lastApi'.header
          /\ \A i \in 1..Len(inflight) : inflight'[i] = inflight[i]
          /\ IF authToken \in Tokens
             THEN lastApi'.header = <<"Token", authToken>>
             ELSE lastApi'.header = NoHeader]_vars

\* C11's case: a 401 has cleared the token of an earlier request that is
\* still unanswered, and the request sent after it carries no header.
C11_Witness ==
    /\ lastApi.op = "send"
    /\ Len(inflight) = 2
    /\ inflight[1] \in {<<"Token", t>> : t \in Tokens}
    /\ inflight[2] = NoHeader
    /\ authToken = NoToken

\* C12: every 401 answer leaves no token stored, whether or not the
\* interceptor redirects.
C12_TokenRemovedOn401 ==
    [][(lastApi'.op = "response" /\ lastApi'.status = 401) =>
          authToken' = NoToken]_vars

\* C12's case: a 401 met a stored token on a login or public feedback path,
\* removed it and did not redirect.
C12_Witness ==
    /\ lastApi.op = "response"
    /\ lastApi.status = 401
    /\ lastApi.token \in Tokens
    /\ ~lastApi.redirected
    /\ OnPublicPath(pathname)
    /\ authToken = NoToken

\* C30: the response interceptor changes the stored token and the browser
\* location on a 401 only: an answer with another status, or a failure with
\* no response, leaves both as they were; and every error, the 401 included,
\* reaches the caller as a rejection.
C30_OnlyA401ChangesSession ==
    [][lastApi'.op = "response" =>
          /\ lastApi'.status # 401 =>
                /\ authToken' = authToken
                /\ pathname' = pathname
                /\ ~lastApi'.redirected
          /\ lastApi'.status # 200 => lastApi'.delivered = "rejected"
          /\ lastApi'.status = 200 => lastApi'.delivered = "resolved"]_vars

\* C30's case: a request failed without a response while a token was stored
\* on an admin page; the token and the page are as they were.
C30_Witness ==
    /\ lastApi.op = "response"
    /\ lastApi.status = NoResponse
    /\ lastApi.delivered = "rejected"
    /\ lastApi.token \in Tokens
    /\ authToken = lastApi.token
    /\ pathname = P(<<W("admin"), W("dashboard")>>)

(***************************************************************************)
(* Properties of the public feedback form                                  *)
(***************************************************************************)
\* a required question of the form has no answer: none was ever given, or
\* the empty string, or an empty array
MissingRequired ==
    \E i \in 1..Len(pfForm.questions) :
        /\ pfForm.questions[i].is_required
        /\ pfAnswers[pfForm.questions[i].id] \in {Undefined, Str(0), Arr(0)}

\* C19: a submit of the form while a required question has no answer issues
\* no submit request and leaves the submitting flag, the error and the
\* success state as they were.
C19_InvalidSubmitSendsNothing ==
    [][(pfLast'.op = "handleSubmit" /\ MissingRequired) =>
          /\ pfSubmitPending' = pfSubmitPending
          /\ pfSubmitting' = pfSubmitting
          /\ pfError' = pfError
          /\ pfSuccess' = pfSuccess]_vars

\* C19's case: the form was submitted with its required check boxes all
\* unchecked again (an empty array) and its other question answered.
C19_Witness ==
    /\ pfLast.op = "handleSubmit"
    /\ ~pfLast.valid
    /\ Len(pfForm.questions) = 2
    /\ pfForm.questions[1].is_required
    /\ pfAnswers[1] = Arr(0)
    /\ ~NoAnswer(pfAnswers[2])
    /\ pfSubmitPending = 0
    /\ ~pfSubmitting

(***************************************************************************)
(* Properties of the pages that load on mount                              *)
(***************************************************************************)
\* The page half of C20 (amended): a failed load of the forms list, the
\* responses list or the dashboard is caught and not rethrown, and the page
\* then renders an error message.
C20_PageLoadFailureShown ==
    [][pgLast'.op = "load_failed" =>
          /\ pgLast'.promise = "resolved"
          /\ PageShown' # NoMessage
          /\ ~pgLoading']_vars

\* C26 (as claimed): after a failed form load, a "Try Again" whose fetch
\* succeeds clears the error and the form is displayed.
C26_RetryShowsForm ==
    [][(pfError = LoadError /\ pfLast.op = "tryAgain" /\ pfLast'.op = "loadForm_ok") =>
          /\ pfError' = NoError
          /\ Screen' = "form"]_vars

\* C23: in the forms list a declined confirmation issues no request and
\* changes nothing; a failed remote delete leaves the list as it was; a
\* request is issued only by a confirmed click; and a form leaves the list
\* only in the continuation of a successful remote delete, its own delete
\* having succeeded.
C23_RemovedOnlyAfterConfirmedSuccess ==
    [][/\ pgLast'.op = "delete_declined" =>
             pgDeletes' = pgDeletes /\ pgForms' = pgForms
       /\ pgLast'.op = "delete_failed" => pgForms' = pgForms
       /\ pgDeletes' \ pgDeletes # {} => pgLast'.op = "delete_confirmed"
       /\ \A f \in FormIds :
             (InList(pgForms, f) /\ ~InList(pgForms', f)) =>
                 /\ pgLast'.op \in {"delete_ok", "load_ok"}
                 /\ pgLast'.op = "delete_ok" => f \in pgDeleted']_vars

\* C23's case: the remote delete of a form failed and the form is still in
\* the list, after the delete of another form had succeeded and removed it.
C23_Witness ==
    /\ pgLast.op = "delete_failed"
    /\ InList(pgForms, pgLast.id)
    /\ pgDeleted # {}
    /\ \A f \in pgDeleted : ~InList(pgForms, f)

\* C25 (as claimed): a form whose remote delete has succeeded and that has
\* been removed from the list never comes back into the list.
C25_DeletedNeverReappears ==
    [][\A f \in pgDeleted :
          ~InList(pgForms, f) => ~InList(pgForms', f)]_vars

(***************************************************************************)
(* Properties of the form analytics view                                   *)
(***************************************************************************)
\* C22 (as claimed): a load attempt starts only in an effect run caused by
\* the mount, a change of the form id, a change of the authentication state
\* or a "Try Again" click, never by the completion of a load; and the effect
\* run that follows a "Try Again" click starts exactly one load.
C22_LoadsOnlyOnMountChangeOrRetry ==
    [][faLast'.op = "effect" =>
          /\ faLast'.started => faLast'.cause \in {"mount", "id", "auth", "retry"}
          /\ (faLast'.cause = "retry" /\ faAuth) =>
                faStage1' + faStage2' = faStage1 + faStage2 + 1]_vars

(***************************************************************************)
(* Properties of CreateForm and EditForm                                   *)
(***************************************************************************)
\* a text that is empty or white space only
Blank(t) == t \in {"", " "}

\* the rules of the claim, each as the index of the rule (1..2) or of the
\* first question (counted from 1) that breaks a question rule, 0 if none
BrokenQuestions(qs) ==
    {i \in 1..Len(qs) :
        \/ Blank(qs[i].text)
        \/ qs[i].question_type \in {"radio", "checkbox"} /\ Len(qs[i].options) < 2}

Acceptable(title, qs) == ~Blank(title) /\ Len(qs) >= 1 /\ BrokenQuestions(qs) = {}

\* C24: handleSubmit of CreateForm and of EditForm sends its request only for
\* a form with a non-blank title, at least one question, non-blank text in
\* every question and at least 2 options in every radio or checkbox question;
\* otherwise nothing is sent, the loading flag stays false, and the alert is
\* the one of the first rule broken (title, then question count, then the
\* first failing question, its text before its options).
C24_InvalidFormSendsNothing ==
    [][cfLast'.op = "handleSubmit" =>
          IF Acceptable(cfTitle, cfQuestions)
          THEN cfPending' = cfPending + 1 /\ cfLoading' /\ cfLast'.alert = NoAlert
          ELSE /\ cfPending' = cfPending
               /\ cfLoading' = FALSE
               /\ cfLast'.alert.msg =
                     IF Blank(cfTitle) THEN "Please enter a form title"
                     ELSE IF Len(cfQuestions) = 0 THEN "Please add at least one question"
                     ELSE IF \E i \in BrokenQuestions(cfQuestions) :
                                /\ \A j \in BrokenQuestions(cfQuestions) : i <= j
                                /\ Blank(cfQuestions[i].text)
                          THEN "Please enter text for question"
                          ELSE "needs at least 2 options"
               /\ cfLast'.alert.question \in BrokenQuestions(cfQuestions) \cup {0}
               /\ \A j \in BrokenQuestions(cfQuestions) :
                     cfLast'.alert.question <= j]_vars

\* C24's case: a submit stopped at the second question, whose text is white
\* space only, on a form whose first question is a complete radio question
C24_Witness ==
    /\ cfLast.op = "handleSubmit"
    /\ cfLast.alert.question = 2
    /\ cfQuestions[2].text = " "
    /\ cfQuestions[1].question_type = "radio"
    /\ cfPending = 0

\* the question at position i of qs, its order field apart
SameQuestion(a, b) == [a EXCEPT !.order = 0] = [b EXCEPT !.order = 0]

\* C29: in the CreateForm editor every question's order field equals its
\* index in the list after every step; moveQuestion up at index 0 and down at
\* the last index change nothing; any other move swaps two adjacent questions
\* and leaves the rest and the length as they were.
C29_OrderFollowsIndex ==
    [][/\ \A i \in 1..Len(cfQuestions') : cfQuestions'[i].order = i - 1
       /\ cfLast'.op = "moveQuestion" =>
            LET i == cfLast'.index + 1
                j == IF cfLast'.direction = "up" THEN i - 1 ELSE i + 1
            IN  IF j = 0 \/ j = Len(cfQuestions) + 1
                THEN cfQuestions' = cfQuestions
                ELSE /\ Len(cfQuestions') = Len(cfQuestions)
                     /\ SameQuestion(cfQuestions'[i], cfQuestions[j])
                     /\ SameQuestion(cfQuestions'[j], cfQuestions[i])
                     /\ \A k \in 1..Len(cfQuestions) \ {i, j} :
                           cfQuestions'[k] = cfQuestions[k]]_vars

\* C29's case: two different questions have just been swapped
C29_Witness ==
    /\ cfLast.op = "moveQuestion"
    /\ cfLast.index = 1
    /\ cfLast.direction = "up"
    /\ Len(cfQuestions) = 2
    /\ cfQuestions[1].text = "a"
    /\ cfQuestions[2].text = ""
    /\ cfQuestions[1].order = 0

=============================================================================
